---- MODULE Spec2Model ----
(***************************************************************************)
(* shopify-bulk-export: the Run (runBulkExport) and Resume                 *)
(* (resumeBulkExport) entry points, the submission (startBulkQuery), the   *)
(* status poller (waitForQuery), the result streamer (downloadData), the   *)
(* query formatter (replaceQueryVariables) and the file cache              *)
(* (createCache).                                                          *)
(*                                                                         *)
(* A call is a chain of steps; every `await` of the source is the boundary *)
(* between two steps.  Run and Resume hand their context object to         *)
(* createCache where a logger is expected, so a call of either ends in     *)
(* createCache; the functions behind that point are exported by their      *)
(* modules and are modelled as they behave when they are called directly.  *)
(* The remote platform, the download endpoint and the caller are the       *)
(* environment: the responses they give and the arguments they pass are    *)
(* chosen with \E from the sets below.                                     *)
(***************************************************************************)
EXTENDS Integers, Sequences, FiniteSets, TLC

-----------------------------------------------------------------------------
(* Bounds *)

\* status queries one invocation may issue (the source's loop is unbounded)
MaxPolls == 3

\* lines in the body of a result file
MaxLines == 2

-----------------------------------------------------------------------------
(* Values *)

\* the JavaScript value `undefined` of an optional string field
Undefined == "undefined"

\* StoreInput.apiVersion: optional
ApiVersions == {Undefined, "2024-07"}

DEFAULT_API_VERSION == "2024-07"

\* BaseInput.cache: boolean | string | undefined (only the default directory is modelled)
CacheOptions == {"undefined", "true", "false"}

\* BulkOperationStatus
BulkOperationStatus ==
  {"CANCELED", "CANCELING", "COMPLETED", "CREATED", "EXPIRED", "FAILED", "RUNNING"}

\* BulkOperationErrorCode; "" is null
BulkOperationErrorCode == {"ACCESS_DENIED", "INTERNAL_SERVER_ERROR", "TIMEOUT"}

\* the input of one call.  "" in a string field is a missing (falsy) value.
\* variables: present says whether a map was passed, entries are its
\* key/value pairs in insertion order.
NoVariables == [present |-> FALSE, entries |-> <<>>]

\* the store, with the fields that may be missing
Stores == [name : {"", "shop1"}, accessToken : {"", "shpat"}]

\* input.logs: "undefined" (absent: silent), "true" (level debug), "error" (a
\* level), "console" (a logger given by the caller that implements console),
\* "throws" (one whose methods throw)
WithLogs(input, logs) == [input EXCEPT !.logs = logs]

\* input.interval: absent, or a number of milliseconds
NoInterval == [present |-> FALSE, ms |-> 0]
ConfiguredInterval == [present |-> TRUE, ms |-> 5000]
WithInterval(input, interval) == [input EXCEPT !.interval = interval]

RunInput(store, apiVersion, query, cache) ==
  [kind |-> "run", name |-> store.name, accessToken |-> store.accessToken,
   apiVersion |-> apiVersion, query |-> query, variables |-> NoVariables,
   cache |-> cache, operationId |-> Undefined, interval |-> NoInterval,
   logs |-> "undefined", document |-> FALSE]

ResumeInput(store, apiVersion, operationId, cache) ==
  [kind |-> "resume", name |-> store.name, accessToken |-> store.accessToken,
   apiVersion |-> apiVersion, query |-> "query { products }", variables |-> NoVariables,
   cache |-> cache, operationId |-> operationId, interval |-> NoInterval,
   logs |-> "undefined", document |-> FALSE]

\* the calls of the model: every cache option with the default API version,
\* and an explicit API version with the default cache option
RunInputs ==
  {RunInput(s, Undefined, q, c) :
     s \in Stores, q \in {"", "query { products }"}, c \in CacheOptions}
  \cup {RunInput(s, v, q, "undefined") :
     s \in Stores, q \in {"", "query { products }"}, v \in ApiVersions}

ResumeInputs ==
  {ResumeInput(s, Undefined, o, c) :
     s \in Stores, o \in {"", "gid://shopify/BulkOperation/999"},
     c \in {"undefined", "false"}}

\* calls with input.interval set
IntervalInputs ==
  {WithInterval(RunInput([name |-> "shop1", accessToken |-> "shpat"], Undefined,
                         "query { products }", "undefined"), ConfiguredInterval),
   WithInterval(ResumeInput([name |-> "shop1", accessToken |-> "shpat"], Undefined,
                            "gid://shopify/BulkOperation/999", "undefined"), ConfiguredInterval)}

\* the calls of the model; the last set has input.logs set
Inputs ==
  RunInputs \cup ResumeInputs \cup IntervalInputs \cup
    {WithLogs(RunInput([name |-> "shop1", accessToken |-> "shpat"], Undefined,
                       "query { products }", "undefined"), l) : l \in {"true", "throws"}}

-----------------------------------------------------------------------------
(* createHash: the cache key *)

\* object keys are hashed in sorted order; KeyRank is the order of the
\* variable names used in the model
KeyRank(k) ==
  CASE k = "first" -> 1
    [] k = "searchQuery" -> 2
    [] OTHER -> 3

RECURSIVE InsertSorted(_, _)
InsertSorted(pair, sorted) ==
  IF sorted = <<>> THEN <<pair>>
  ELSE IF KeyRank(pair[1]) <= KeyRank(Head(sorted)[1])
       THEN <<pair>> \o sorted
       ELSE <<Head(sorted)>> \o InsertSorted(pair, Tail(sorted))

RECURSIVE SortKeys(_)
SortKeys(entries) ==
  IF entries = <<>> THEN <<>>
  ELSE InsertSorted(Head(entries), SortKeys(Tail(entries)))

RECURSIVE EntryTokens(_)
EntryTokens(entries) ==
  IF entries = <<>> THEN <<>>
  ELSE <<Head(entries)[1], Head(entries)[2]>> \o EntryTokens(Tail(entries))

\* the serialisation of a variables value: `undefined`, or the object with
\* its keys sorted
HashVariables(variables) ==
  IF ~variables.present THEN <<"Undefined">>
  ELSE <<"object">> \o EntryTokens(SortKeys(variables.entries))

\* hash({ query, variables, store: { name, apiVersion } }): the digest is
\* taken of the serialisation below, with the keys of every object sorted.
\* input.query is serialised as it is given: a string, or the document object
\* (a TypedDocumentNode) that graphql's parse makes of the text.  The digest
\* is modelled by the serialisation: equal serialisations have equal digests,
\* and the model does not tell which different ones collide in the ten
\* characters ohash keeps
createHash(input) ==
  <<"query">>
    \o (IF input.document THEN <<"object", "Document", input.query>>
                           ELSE <<"string", input.query>>)
    \o <<"store", "apiVersion">>
    \o (IF input.apiVersion = Undefined THEN <<"Undefined">>
                                          ELSE <<"string", input.apiVersion>>)
    \o <<"name", input.name, "variables">> \o HashVariables(input.variables)

\* the client's prefixUrl: store name and `store.apiVersion ?? DEFAULT_API_VERSION`
Endpoint(input) ==
  <<"https://", input.name, ".myshopify.com/admin/api/",
    IF input.apiVersion = Undefined THEN DEFAULT_API_VERSION ELSE input.apiVersion>>

-----------------------------------------------------------------------------
(* JSON: the lines of a result file and the text of a cache file *)

\* a line of the result file as readline yields it.  BlankLine is the empty
\* line, the only falsy one; a line of spaces is truthy and is parsed
BlankLine == ""
Lines == {BlankLine, " ", "{\"id\":1}", "{\"id\":1e999}", "{\"id\":"}

\* JSON.parse of one line throws on malformed text
ParseThrows(text) == text \notin {"{\"id\":1}", "{\"id\":1e999}", "{\"id\":null}"}

\* JSON.parse of one well-formed text; 1e999 is read as Infinity
JSONparse(text) ==
  CASE text = "{\"id\":1}" -> [id |-> "1"]
    [] text = "{\"id\":1e999}" -> [id |-> "Infinity"]
    [] text = "{\"id\":null}" -> [id |-> "null"]

\* JSON.stringify of one value; a non-finite number is written as null
JSONstringify(value) ==
  CASE value.id = "1" -> "{\"id\":1}"
    [] value.id = "Infinity" -> "{\"id\":null}"
    [] value.id = "null" -> "{\"id\":null}"

\* the sequences over S of length up to n
RECURSIVE SeqsUpTo(_, _)
SeqsUpTo(S, n) ==
  IF n = 0 THEN {<<>>}
  ELSE LET shorter == SeqsUpTo(S, n - 1)
       IN  shorter \cup {Append(s, x) : s \in {t \in shorter : Len(t) = n - 1}, x \in S}

\* JSON.stringify(data) of an array: "[", the elements separated by ",", "]"
RECURSIVE StringifyElements(_)
StringifyElements(nodes) ==
  IF nodes = <<>> THEN <<>>
  ELSE IF Len(nodes) = 1 THEN <<JSONstringify(nodes[1])>>
       ELSE <<JSONstringify(nodes[1]), ",">> \o StringifyElements(Tail(nodes))

StringifyArray(nodes) == <<"[">> \o StringifyElements(nodes) \o <<"]">>

\* JSON.parse of the text of a cache file
RECURSIVE ElementsWellFormed(_)
ElementsWellFormed(tokens) ==
  IF tokens = <<>> THEN FALSE
  ELSE /\ ~ParseThrows(tokens[1])
       /\ \/ Len(tokens) = 1
          \/ /\ Len(tokens) >= 3
             /\ tokens[2] = ","
             /\ ElementsWellFormed(SubSeq(tokens, 3, Len(tokens)))

ArrayThrows(tokens) ==
  ~ /\ Len(tokens) >= 2
    /\ tokens[1] = "["
    /\ tokens[Len(tokens)] = "]"
    /\ \/ Len(tokens) = 2
       \/ ElementsWellFormed(SubSeq(tokens, 2, Len(tokens) - 1))

RECURSIVE ParseElements(_)
ParseElements(tokens) ==
  IF tokens = <<>> THEN <<>>
  ELSE <<JSONparse(tokens[1])>> \o
       (IF Len(tokens) = 1 THEN <<>> ELSE ParseElements(SubSeq(tokens, 3, Len(tokens))))

ParseArray(tokens) == ParseElements(SubSeq(tokens, 2, Len(tokens) - 1))

\* the characters of a token of a cache file's text
Chars(token) ==
  CASE token = "{\"id\":1}" -> <<"{", "\"", "i", "d", "\"", ":", "1", "}">>
    [] token = "{\"id\":null}" ->
         <<"{", "\"", "i", "d", "\"", ":", "n", "u", "l", "l", "}">>
    [] OTHER -> <<token>>

\* a text as the file system holds it: the characters of its tokens
RECURSIVE Text(_)
Text(tokens) ==
  IF tokens = <<>> THEN <<>> ELSE Chars(Head(tokens)) \o Text(Tail(tokens))

\* the first position from p on that holds the character c (0: none)
RECURSIVE IndexOf(_, _, _)
IndexOf(chars, c, p) ==
  IF p > Len(chars) THEN 0
  ELSE IF chars[p] = c THEN p ELSE IndexOf(chars, c, p + 1)

\* the token a run of characters from "{" to the next "}" spells
ObjectToken(chars) ==
  IF chars = Chars("{\"id\":1}") THEN "{\"id\":1}"
  ELSE IF chars = Chars("{\"id\":null}") THEN "{\"id\":null}"
  ELSE "?"

\* JSON.parse's scan of a text: brackets and commas, objects from "{" to
\* "}", and "?" for a character that starts no token
RECURSIVE Tokenize(_)
Tokenize(chars) ==
  IF chars = <<>> THEN <<>>
  ELSE IF Head(chars) \in {"[", "]", ","} THEN <<Head(chars)>> \o Tokenize(Tail(chars))
  ELSE IF Head(chars) = "{" /\ IndexOf(chars, "}", 1) > 0
    THEN LET close == IndexOf(chars, "}", 1)
         IN  <<ObjectToken(SubSeq(chars, 1, close))>>
               \o Tokenize(SubSeq(chars, close + 1, Len(chars)))
  ELSE <<"?">> \o Tokenize(Tail(chars))

\* JSON.stringify(data) as text, and JSON.parse of a file's text
StringifyText(nodes) == Text(StringifyArray(nodes))
TextThrows(chars) == ArrayThrows(Tokenize(chars))
ParseText(chars) == ParseArray(Tokenize(chars))

-----------------------------------------------------------------------------
(* Remote responses *)

SubmittedId == "gid://shopify/BulkOperation/1"

\* the body of the response to the StartBulkQuery mutation.  fault: the
\* request itself failed (the client throws); payload: data.bulkOperationRunQuery
\* is present; operation: its bulkOperation is not null.
SubmitResponse(fault, errors, payload, userErrors, operation, status, id) ==
  [fault |-> fault, errors |-> errors, payload |-> payload, userErrors |-> userErrors,
   operation |-> operation, status |-> status, id |-> id]

SubmitResponses ==
  {SubmitResponse(TRUE, <<>>, FALSE, <<>>, FALSE, Undefined, "")}
  \cup {SubmitResponse(FALSE, e, FALSE, <<>>, FALSE, Undefined, "") :
          e \in {<<>>, <<"Throttled">>}}
  \cup {SubmitResponse(FALSE, <<"Throttled", "Internal error">>, TRUE, <<>>, TRUE,
                        "CREATED", SubmittedId)}
  \cup {SubmitResponse(FALSE, <<>>, TRUE, u, FALSE, Undefined, "") :
          u \in {<<>>, <<"Invalid bulk query">>, <<"Bulk query in progress", "Invalid bulk query">>}}
  \cup {SubmitResponse(FALSE, <<>>, TRUE, u, TRUE, s, id) :
          u \in {<<>>, <<"Invalid bulk query">>}, s \in {"CREATED", "FAILED"},
          id \in {"", SubmittedId}}

\* the body of the response to the BulkStatus query.  typename: "null" when
\* data.bulk is missing, else the __typename of the node.
StatusResponse(fault, errors, typename, errorCode, status, objectCount, url) ==
  [fault |-> fault, errors |-> errors, typename |-> typename, errorCode |-> errorCode,
   status |-> status, objectCount |-> objectCount, url |-> url]

Urls == {"https://storage/bulk-1.jsonl", "https://storage/bulk-2.jsonl"}

StatusResponses ==
  {StatusResponse(TRUE, <<>>, "null", "", Undefined, "0", "")}
  \cup {StatusResponse(FALSE, e, t, "", Undefined, "0", "") :
          e \in {<<>>, <<"Throttled">>}, t \in {"null", "Product"}}
  \cup {StatusResponse(FALSE, <<>>, "BulkOperation", "", s, c, "") :
          s \in BulkOperationStatus, c \in {"0", "2"}}
  \cup {StatusResponse(FALSE, <<>>, "BulkOperation", "", "COMPLETED", c, u) :
          c \in {"0", "2"}, u \in Urls}
  \cup {StatusResponse(FALSE, <<>>, "BulkOperation", c, s, "0", "") :
          c \in BulkOperationErrorCode, s \in BulkOperationStatus}
  \cup {StatusResponse(FALSE, <<>>, "BulkOperation", "ACCESS_DENIED", "FAILED", "0", ""),
        StatusResponse(FALSE, <<>>, "BulkOperation", "TIMEOUT", "COMPLETED", "2",
                       "https://storage/bulk-1.jsonl"),
        StatusResponse(FALSE, <<"Throttled">>, "BulkOperation", "TIMEOUT", "FAILED", "0", "")}

\* no response received yet
NoStatus == StatusResponse(FALSE, <<>>, "none", "", Undefined, "0", "")

\* Number(objectCount)
ToNumber(objectCount) ==
  CASE objectCount = "0" -> 0
    [] objectCount = "2" -> 2

-----------------------------------------------------------------------------
(* Errors: the type of the thrown object and the parts of its message (the
   backquotes of the source's messages are left out) *)

NoError == [type |-> "none", message |-> <<>>]
Throw(type, message) == [type |-> type, message |-> message]

\* mutant of Validate: no assert on input.query
ValidateNoQuery(input) ==
  IF input.name = ""
    THEN Throw("AssertionError", <<"Missing store name input - input.store.name">>)
  ELSE IF input.accessToken = ""
    THEN Throw("AssertionError", <<"Missing store accessToken input - input.store.accessToken">>)
  ELSE IF input.kind = "resume" /\ input.operationId = ""
    THEN Throw("AssertionError", <<"Missing input query - input.query">>)
  ELSE NoError

\* the asserts at the head of runBulkExport and resumeBulkExport, in order
Validate(input) ==
  IF input.name = ""
    THEN Throw("AssertionError", <<"Missing store name input - input.store.name">>)
  ELSE IF input.accessToken = ""
    THEN Throw("AssertionError", <<"Missing store accessToken input - input.store.accessToken">>)
  ELSE IF input.kind = "run" /\ input.query = ""
    THEN Throw("AssertionError", <<"Missing input query - input.query">>)
  ELSE IF input.kind = "resume" /\ input.operationId = ""
    THEN Throw("AssertionError", <<"Missing input query - input.query">>)
  ELSE NoError

\* mutant of SubmitError: the last user error is reported, not the first
SubmitErrorLastUserError(r) ==
  IF r.fault THEN Throw("RequestError", <<"request failed">>)
  ELSE IF Len(r.errors) > 0 THEN Throw("Error", <<r.errors[1]>>)
  ELSE IF ~r.payload
    THEN Throw("Error", <<"Missing data.bulkOperationRunQuery key in response from bulk operation start mutation.">>)
  ELSE IF Len(r.userErrors) > 0 THEN Throw("Error", <<r.userErrors[Len(r.userErrors)]>>)
  ELSE IF r.operation /\ r.status = "FAILED"
    THEN Throw("Error", <<"Failed to create bulk operation.">>)
  ELSE IF ~r.operation \/ r.id = ""
    THEN Throw("Error", <<"Missing bulk operation ID from the returned response.">>)
  ELSE NoError

\* startBulkQuery's checks of the response, in order: the error it throws,
\* NoError when it returns the id
SubmitError(r) ==
  IF r.fault THEN Throw("RequestError", <<"request failed">>)
  ELSE IF Len(r.errors) > 0 THEN Throw("Error", <<r.errors[1]>>)
  ELSE IF ~r.payload
    THEN Throw("Error", <<"Missing data.bulkOperationRunQuery key in response from bulk operation start mutation.">>)
  ELSE IF Len(r.userErrors) > 0 THEN Throw("Error", <<r.userErrors[1]>>)
  ELSE IF r.operation /\ r.status = "FAILED"
    THEN Throw("Error", <<"Failed to create bulk operation.">>)
  ELSE IF ~r.operation \/ r.id = ""
    THEN Throw("Error", <<"Missing bulk operation ID from the returned response.">>)
  ELSE NoError

\* waitForQuery's `interval: number = 20000`
DefaultInterval == 20000

\* one evaluation of the condition passed to pWaitFor in waitForQuery:
\* tag "Fatal" (it throws error), "EmptyResult" (true, downloadUrl untouched),
\* "Success" (true, downloadUrl set to url) or "Continue" (false)
Outcome(tag, url, error) == [tag |-> tag, url |-> url, error |-> error]

\* the condition's branch for status Completed
ClassifyCompleted(r) ==
  IF ToNumber(r.objectCount) = 0
    THEN Outcome("EmptyResult", "", NoError)
    ELSE Outcome("Success", r.url, NoError)

\* the condition's checks of a BulkOperation node: error code, then status
ClassifyJob(r) ==
  IF r.errorCode # ""
    THEN Outcome("Fatal", "", Throw("Error", <<"Bulk operation failed, with an error code of ", r.errorCode>>))
  ELSE IF r.status = "COMPLETED" THEN ClassifyCompleted(r)
  ELSE Outcome("Continue", "", NoError)

\* mutant of Classify: data.bulk is looked at before the top-level errors
ClassifyPayloadFirst(r) ==
  IF r.fault THEN Outcome("Fatal", "", Throw("RequestError", <<"request failed">>))
  ELSE IF r.typename = "null"
    THEN Outcome("Fatal", "", Throw("Error", <<"Missing data.bulk key in response from bulk operation status query.">>))
  ELSE IF r.typename # "BulkOperation"
    THEN Outcome("Fatal", "", Throw("Error", <<"Wrong typename returned from the bulk operation status query - this is likely a library error, so open an issue on GitHub.">>))
  ELSE IF Len(r.errors) > 0 THEN Outcome("Fatal", "", Throw("Error", <<r.errors[1]>>))
  ELSE ClassifyJob(r)

Classify(r) ==
  IF r.fault THEN Outcome("Fatal", "", Throw("RequestError", <<"request failed">>))
  ELSE IF Len(r.errors) > 0 THEN Outcome("Fatal", "", Throw("Error", <<r.errors[1]>>))
  ELSE IF r.typename = "null"
    THEN Outcome("Fatal", "", Throw("Error", <<"Missing data.bulk key in response from bulk operation status query.">>))
  ELSE IF r.typename # "BulkOperation"
    THEN Outcome("Fatal", "", Throw("Error", <<"Wrong typename returned from the bulk operation status query - this is likely a library error, so open an issue on GitHub.">>))
  ELSE ClassifyJob(r)

\* mutant of CacheEnabled: the option is ignored
CacheEnabledAlways(options) == TRUE

\* createCache: typeof options === 'boolean' ? options : true
CacheEnabled(options) == IF options \in {"true", "false"} THEN options = "true" ELSE TRUE

-----------------------------------------------------------------------------
(* State *)

VARIABLES
  cacheDir,   \* the cache directory exists
  files,      \* the .json files of the cache directory: key -> [bytes, data]
  inv,        \* the calls in flight: slot -> the locals of the call
  probe       \* the environment of the calls (the remote platform), or the
              \* arguments and results of a pure function under test

vars == <<cacheDir, files, inv, probe>>

\* the calls a process has in flight at one time
Slots == {1}

NoInput ==
  [kind |-> "none", name |-> "", accessToken |-> "", apiVersion |-> Undefined,
   query |-> "", variables |-> NoVariables, cache |-> "undefined", operationId |-> Undefined,
   interval |-> NoInterval, logs |-> "undefined", document |-> FALSE]

NoProbe == [pc |-> "none", a |-> NoInput, b |-> NoInput, ka |-> <<>>, kb |-> <<>>]

\* pc         where the call is suspended ("idle": no call in this slot)
\* input      the argument of the call; for a function called directly, its
\*            arguments in the fields of the same names
\* logger     what createCache was handed as its logger
\* enabled    createCache's enabled
\* index      createCache's cacheKeyMap: the keys found in the directory
\* calls      the remote calls issued so far: <<operation, argument>>
\* handle     bulkOperationId
\* reply      the response to the mutation
\* status     the response to the last status query
\* replies    history: the status responses received
\* outcome    what the last evaluation of the poll condition did
\* downloadUrl  waitForQuery's downloadUrl ("": undefined or null)
\* body       history: the lines the loop of downloadData has been given
\* streamFault  history: the stream failed after these lines
\* nodes      downloadData's nodes; for cache.put, its data
\* hit        cache.get returned an entry
\* puts       calls of cache.put
\* fsOps      history: the operations of this call that have read or changed
\*            the file system (closing a file does neither)
\* size       fs.readFile: the size of the file as fstat gave it
\* text       fs.readFile: the characters read
\* result     the array the call resolved with
\* error      the error the call rejected with
\* timer      the delay pWaitFor's timer is set with (0: no timer is set)
\* listed     history: the times the cache directory was listed
\* suspends   history: the times pWaitFor has set its timer
Idle ==
  [pc |-> "idle", input |-> NoInput, logger |-> "none", enabled |-> FALSE, index |-> {},
   calls |-> <<>>, handle |-> Undefined, status |-> NoStatus,
   reply |-> SubmitResponse(FALSE, <<>>, FALSE, <<>>, FALSE, Undefined, ""),
   replies |-> 0, outcome |-> "None", downloadUrl |-> "", body |-> <<>>,
   streamFault |-> FALSE, nodes |-> <<>>, hit |-> FALSE,
   puts |-> 0, fsOps |-> 0, size |-> 0, text |-> <<>>, result |-> <<>>, error |-> NoError,
   timer |-> 0, listed |-> 0, suspends |-> 0]

Ended(i) == inv[i].pc \in {"returned", "rejected"}

CountCalls(calls, op) == Cardinality({k \in 1..Len(calls) : calls[k][1] = op})
SubmitCalls(i) == CountCalls(inv[i].calls, "submit")
StatusCalls(i) == CountCalls(inv[i].calls, "status")
StreamFetches(i) == CountCalls(inv[i].calls, "stream")

\* print(parse(query)) of the queries of the model
print(query) ==
  CASE query = "query { products }" -> "{ products }"
    [] OTHER -> query

Reject(rec, err) == [rec EXCEPT !.pc = "rejected", !.error = err]
Return(rec, array) == [rec EXCEPT !.pc = "returned", !.result = array]

\* a file of the cache directory is its text (bytes) and, as history, the
\* data of the put that wrote it last and whether one put only has opened
\* it so far; this one fs.writeFile has created and not yet written
OpenedFile == [bytes |-> <<>>, data |-> <<>>, once |-> TRUE]

-----------------------------------------------------------------------------
(* createCache *)

\* a value that has a method `debug`: a logger has, the context object
\* { logger } has not
HasDebug(value) == value = "logger"

\* createCache up to its first await.  Disabled: logger.debug is called and
\* the mock is returned.  Enabled: loadCacheDir calls getCacheDir, which
\* awaits readPackageUp.
OnCreateCache(rec) ==
  LET on == CacheEnabled(rec.input.cache)
      made == [rec EXCEPT !.enabled = on]
  IN  IF on THEN [made EXCEPT !.pc = "readPackageUp"]
      ELSE IF HasDebug(rec.logger) THEN [made EXCEPT !.pc = "ready"]
      ELSE Reject(made, Throw("TypeError", <<"logger.debug is not a function">>))

\* readPackageUp has looked for the package.json; loadCacheDir awaits
\* fs.ensureDir of the directory
OnReadPackageUp(rec) == [rec EXCEPT !.pc = "ensureDir", !.fsOps = @ + 1]

ReadPackageUp(i) ==
  /\ inv[i].pc = "readPackageUp"
  /\ inv' = [inv EXCEPT ![i] = OnReadPackageUp(@)]
  /\ UNCHANGED <<cacheDir, files, probe>>

\* fs.ensureDir is done: logger.debug('Loaded cache directory at ...') is
\* called, then loadCacheMap awaits fs.readdir
OnEnsureDir(rec) ==
  LET made == [rec EXCEPT !.fsOps = @ + 1]
  IN  IF HasDebug(rec.logger) THEN [made EXCEPT !.pc = "readdir"]
      ELSE Reject(made, Throw("TypeError", <<"logger.debug is not a function">>))

\* mutant of FilesOnEnsureDir: the directory is emptied (fs.emptyDir)
FilesOnEmptyDir(fs) == <<>>

\* fs.ensureDir makes the directory when it is missing and leaves the files
\* of one that exists
FilesOnEnsureDir(fs) == fs

EnsureDir(i) ==
  /\ inv[i].pc = "ensureDir"
  /\ cacheDir' = TRUE
  /\ files' = FilesOnEnsureDir(files)
  /\ inv' = [inv EXCEPT ![i] = OnEnsureDir(@)]
  /\ UNCHANGED probe

-----------------------------------------------------------------------------
(* runBulkExport and resumeBulkExport *)

\* createCache's second argument as Run and Resume pass it: ctx = { logger }
HandedToCreateCache == "ctx"

\* a call of a method of the logger throws: the logger is input.logs when
\* that is an object, else a consola instance, whose methods return
LoggerThrows(logs) == logs = "throws"

\* mutant of OnCall: cache.put is called before the cache is built
OnCallStoresFirst(input) ==
  LET err == Validate(input)
      rec == [Idle EXCEPT !.input = input]
  IN  IF err # NoError THEN Reject(rec, err)
      ELSE IF LoggerThrows(input.logs)
        THEN Reject(rec, Throw("LoggerError", <<"logger.debug", "Initiating cache">>))
      ELSE OnCreateCache([rec EXCEPT !.logger = HandedToCreateCache, !.puts = 1])

\* mutant of OnCall: a Resume posts the mutation as a Run does
OnCallResumeSubmits(input) ==
  LET err == Validate(input)
      rec == [Idle EXCEPT !.input = input]
  IN  IF err # NoError THEN Reject(rec, err)
      ELSE IF LoggerThrows(input.logs)
        THEN Reject(rec, Throw("LoggerError", <<"logger.debug", "Initiating cache">>))
      ELSE IF input.kind = "resume"
        THEN OnCreateCache([rec EXCEPT !.logger = HandedToCreateCache,
                                       !.calls = <<<<"submit", print(input.query)>>>>])
      ELSE OnCreateCache([rec EXCEPT !.logger = HandedToCreateCache])

\* mutant of OnCall: a Resume does not build the cache of input.cache
OnCallResumeWithoutCache(input) ==
  LET err == Validate(input)
      rec == [Idle EXCEPT !.input = input]
  IN  IF err # NoError THEN Reject(rec, err)
      ELSE IF LoggerThrows(input.logs)
        THEN Reject(rec, Throw("LoggerError", <<"logger.debug", "Initiating cache">>))
      ELSE IF input.kind = "resume"
        THEN Reject(rec, Throw("TypeError", <<"logger.debug is not a function">>))
      ELSE OnCreateCache([rec EXCEPT !.logger = HandedToCreateCache])

\* mutant of OnCall: a Run posts the mutation before it builds the cache
OnCallSubmitsBeforeLookup(input) ==
  LET err == Validate(input)
      rec == [Idle EXCEPT !.input = input]
  IN  IF err # NoError THEN Reject(rec, err)
      ELSE IF LoggerThrows(input.logs)
        THEN Reject(rec, Throw("LoggerError", <<"logger.debug", "Initiating cache">>))
      ELSE IF input.kind = "run"
        THEN OnCreateCache([rec EXCEPT !.logger = HandedToCreateCache,
                                       !.calls = <<<<"submit", print(input.query)>>>>])
      ELSE OnCreateCache([rec EXCEPT !.logger = HandedToCreateCache])

\* the call, up to the first await: the asserts, then the logger is chosen,
\* logger.debug('Initiating cache') is called and createCache is called
\* with input.cache and the context
OnCall(input) ==
  LET err == Validate(input)
      rec == [Idle EXCEPT !.input = input]
  IN  IF err # NoError THEN Reject(rec, err)
      ELSE IF LoggerThrows(input.logs)
        THEN Reject(rec, Throw("LoggerError", <<"logger.debug", "Initiating cache">>))
      ELSE OnCreateCache([rec EXCEPT !.logger = HandedToCreateCache])

Call(i, input) ==
  /\ inv[i].pc = "idle"
  /\ inv' = [inv EXCEPT ![i] = OnCall(input)]
  /\ UNCHANGED <<cacheDir, files, probe>>

\* the caller has the result or the error; the slot is free for a next call
Release(i) ==
  /\ Ended(i)
  /\ inv' = [inv EXCEPT ![i] = Idle]
  /\ UNCHANGED <<cacheDir, files, probe>>

\* what the remote platform and the download endpoint hold for a call: the
\* response to the mutation, the responses to the status queries in order
\* (the last one is repeated), and the result file with the fault of its
\* stream
Remote(submit, statuses, fault, lines) ==
  [submit |-> submit, statuses |-> statuses, fault |-> fault, lines |-> lines]

Accepted == SubmitResponse(FALSE, <<>>, TRUE, <<>>, TRUE, "CREATED", SubmittedId)

Job(status, errorCode, objectCount, url) ==
  StatusResponse(FALSE, <<>>, "BulkOperation", errorCode, status, objectCount, url)

RemoteStatuses ==
  {<<Job("COMPLETED", "", "2", "https://storage/bulk-1.jsonl")>>,
   <<Job("COMPLETED", "", "0", "")>>,
   <<Job("COMPLETED", "", "2", "")>>,
   <<Job("RUNNING", "", "0", ""), Job("COMPLETED", "", "2", "https://storage/bulk-1.jsonl")>>,
   <<Job("FAILED", "TIMEOUT", "0", "")>>,
   <<Job("FAILED", "", "0", "")>>,
   <<StatusResponse(TRUE, <<>>, "null", "", Undefined, "0", "")>>}

Remotes ==
  {Remote(s, t, f, l) :
     s \in {Accepted,
             SubmitResponse(FALSE, <<>>, TRUE, <<"Invalid bulk query">>, FALSE, Undefined, "")},
     t \in RemoteStatuses, f \in BOOLEAN,
     l \in {<<>>, <<"{\"id\":1}">>, <<"{\"id\":1}", BlankLine>>, <<"{\"id\":">>}}

\* the cache directory as earlier puts have left it: empty, or one entry
\* under the key of the request for "query { products }" of shop1 without
\* apiVersion, or that file opened by a put that has not yet written it
StoredRequest ==
  RunInput([name |-> "shop1", accessToken |-> "shpat"], Undefined,
           "query { products }", "undefined")

StoredData == {<<>>, <<[id |-> "1"]>>, <<[id |-> "Infinity"]>>}

Directories ==
  {<<>>}
  \cup {[k \in {createHash(StoredRequest)} |->
          [bytes |-> StringifyText(d), data |-> d, once |-> TRUE]] : d \in StoredData}
  \cup {[k \in {createHash(StoredRequest)} |-> OpenedFile]}

Init ==
  /\ files \in Directories
  /\ cacheDir \in {d \in BOOLEAN : files # <<>> => d}
  /\ inv = [i \in Slots |-> Idle]
  /\ probe \in Remotes

Next ==
  \E i \in Slots :
    \/ \E input \in Inputs : Call(i, input)
    \/ ReadPackageUp(i)
    \/ EnsureDir(i)
    \/ Release(i)

Spec == Init /\ [][Next]_vars

-----------------------------------------------------------------------------
(* startBulkQuery, waitForQuery and downloadData, called directly, next to
   runBulkExport and resumeBulkExport, which call them *)

\* the arguments of a direct call, in the fields of the input they come from
StageCall(kind, query, operationId, interval) ==
  [NoInput EXCEPT !.kind = kind, !.query = query, !.operationId = operationId,
                  !.interval = interval]

\* startBulkQuery(query, client, ctx) posts the StartBulkQuery mutation
OnStartBulkQuery(query) ==
  [Idle EXCEPT !.input = StageCall("startBulkQuery", query, Undefined, NoInterval),
               !.pc = "awaitSubmit",
               !.calls = <<<<"submit", query>>>>]

startBulkQuery(i, query) ==
  /\ inv[i].pc = "idle"
  /\ inv' = [inv EXCEPT ![i] = OnStartBulkQuery(query)]
  /\ UNCHANGED <<cacheDir, files, probe>>

\* the response to the mutation: startBulkQuery throws, or returns the id
OnSubmitReply(rec, r) ==
  LET err == SubmitError(r)
      got == [rec EXCEPT !.reply = r]
  IN  IF err # NoError THEN Reject(got, err)
      ELSE [got EXCEPT !.pc = "returned", !.handle = r.id]

SubmitReply(i, r) ==
  /\ inv[i].pc = "awaitSubmit"
  /\ inv' = [inv EXCEPT ![i] = OnSubmitReply(@, r)]
  /\ UNCHANGED <<cacheDir, files, probe>>

\* mutant of Interval: the argument is not passed on to pWaitFor
IntervalIgnoresInput(input) == DefaultInterval

\* waitForQuery's interval: the argument, or the default of the parameter
Interval(input) == IF input.interval.present THEN input.interval.ms ELSE DefaultInterval

\* the condition posts the BulkStatus query with the id
PostStatus(rec, handle) ==
  [rec EXCEPT !.pc = "awaitStatus", !.handle = handle,
              !.calls = Append(@, <<"status", handle>>)]

\* mutant of OnWaitForQuery: pWaitFor waits one interval before its first check
OnWaitForQueryWaitsFirst(handle, interval) ==
  [Idle EXCEPT !.input = StageCall("waitForQuery", "", handle, interval),
               !.handle = handle, !.pc = "suspend",
               !.timer = Interval(StageCall("waitForQuery", "", handle, interval)),
               !.suspends = 1]

\* waitForQuery(bulkOperationId, client, interval, ctx): pWaitFor evaluates
\* the condition at once
OnWaitForQuery(handle, interval) ==
  PostStatus([Idle EXCEPT !.input = StageCall("waitForQuery", "", handle, interval)], handle)

waitForQuery(i, handle, interval) ==
  /\ inv[i].pc = "idle"
  /\ inv' = [inv EXCEPT ![i] = OnWaitForQuery(handle, interval)]
  /\ UNCHANGED <<cacheDir, files, probe>>

\* the condition after its request, and pWaitFor with what it gave: a throw
\* rejects waitForQuery; false sets the timer; true resolves it, and
\* waitForQuery returns downloadUrl
OnStatusReply(rec, r) ==
  LET o == Classify(r)
      got == [rec EXCEPT !.status = r, !.replies = @ + 1, !.outcome = o.tag]
  IN  CASE o.tag = "Fatal" -> Reject(got, o.error)
        [] o.tag = "Continue" ->
             [got EXCEPT !.pc = "suspend", !.timer = Interval(rec.input),
                         !.suspends = @ + 1]
        [] OTHER -> [got EXCEPT !.pc = "returned", !.downloadUrl = o.url]

StatusReply(i, r) ==
  /\ inv[i].pc = "awaitStatus"
  /\ inv' = [inv EXCEPT ![i] = OnStatusReply(@, r)]
  /\ UNCHANGED <<cacheDir, files, probe>>

\* mutant of OnTick: the timer's callback posts the query twice
OnTickPostsTwice(rec) ==
  PostStatus(PostStatus([rec EXCEPT !.status = NoStatus, !.timer = 0], rec.handle), rec.handle)

\* mutant of OnTick: the later queries ask for the id the platform gives to
\* a new job
OnTickPollsSubmittedId(rec) ==
  PostStatus([rec EXCEPT !.status = NoStatus, !.timer = 0], SubmittedId)

\* the interval has passed: pWaitFor evaluates the condition again
OnTick(rec) == PostStatus([rec EXCEPT !.status = NoStatus, !.timer = 0], rec.handle)

Tick(i) ==
  /\ inv[i].pc = "suspend"
  /\ StatusCalls(i) < MaxPolls
  /\ inv' = [inv EXCEPT ![i] = OnTick(@)]
  /\ UNCHANGED <<cacheDir, files, probe>>

\* downloadData(downloadUrl, ctx) opens got.stream(downloadUrl)
OnDownloadData(url) ==
  [Idle EXCEPT !.input = StageCall("downloadData", "", Undefined, NoInterval),
               !.downloadUrl = url, !.pc = "awaitStream",
               !.calls = <<<<"stream", url>>>>]

downloadData(i, url) ==
  /\ inv[i].pc = "idle"
  /\ inv' = [inv EXCEPT ![i] = OnDownloadData(url)]
  /\ UNCHANGED <<cacheDir, files, probe>>

\* mutant of OnStreamLine: a blank line yields a record as well
OnStreamLinePushesBlank(rec, line) ==
  LET got == [rec EXCEPT !.body = Append(@, line)]
  IN  IF line # BlankLine /\ ParseThrows(line)
        THEN Reject(got, Throw("SyntaxError", <<"JSON.parse", line>>))
      ELSE IF line = BlankLine THEN [got EXCEPT !.nodes = Append(@, [id |-> "null"])]
      ELSE [got EXCEPT !.nodes = Append(@, JSONparse(line))]

\* one turn of `for await (const line of rl)`: readline yields the next line
\* of the body; a blank line is skipped, any other is parsed and pushed, and
\* a throw of JSON.parse leaves the loop through the catch block, which
\* throws it again.  After the turn the call is suspended in the loop again
OnStreamLine(rec, line) ==
  LET got == [rec EXCEPT !.body = Append(@, line)]
  IN  IF line = BlankLine THEN got
      ELSE IF ParseThrows(line)
        THEN Reject(got, Throw("SyntaxError", <<"JSON.parse", line>>))
      ELSE [got EXCEPT !.nodes = Append(@, JSONparse(line))]

StreamLine(i, line) ==
  /\ inv[i].pc = "awaitStream"
  /\ Len(inv[i].body) < MaxLines
  /\ inv' = [inv EXCEPT ![i] = OnStreamLine(@, line)]
  /\ UNCHANGED <<cacheDir, files, probe>>

\* the stream is over after the lines read so far: at the end of the body
\* the loop ends and nodes is returned; when the stream fails, the iterator
\* throws and the catch block throws the error again
OnStreamEnd(rec, fault) ==
  IF fault
    THEN Reject([rec EXCEPT !.streamFault = TRUE], Throw("RequestError", <<"stream failed">>))
    ELSE Return(rec, rec.nodes)

StreamEnd(i, fault) ==
  /\ inv[i].pc = "awaitStream"
  /\ inv' = [inv EXCEPT ![i] = OnStreamEnd(@, fault)]
  /\ UNCHANGED <<cacheDir, files, probe>>

InitSteps ==
  /\ cacheDir = FALSE
  /\ files = <<>>
  /\ inv = [i \in Slots |-> Idle]
  /\ probe = NoProbe

NextSteps ==
  \E i \in Slots :
    \/ \E input \in Inputs : Call(i, input)
    \/ ReadPackageUp(i)
    \/ EnsureDir(i)
    \/ startBulkQuery(i, "{ products }")
    \/ \E r \in SubmitResponses : SubmitReply(i, r)
    \/ \E handle \in {SubmittedId, "gid://shopify/BulkOperation/999"}, interval \in {NoInterval, ConfiguredInterval} :
         waitForQuery(i, handle, interval)
    \/ \E r \in StatusResponses : StatusReply(i, r)
    \/ Tick(i)
    \/ \E url \in Urls : downloadData(i, url)
    \/ \E line \in Lines : StreamLine(i, line)
    \/ \E fault \in BOOLEAN : StreamEnd(i, fault)
    \/ Release(i)

SpecSteps == InitSteps /\ [][NextSteps]_vars

-----------------------------------------------------------------------------
(* createCache called with a logger, and the methods of the instances it
   returns.  A slot holds one instance and the call of a method on it:
   logger, enabled, index and listed are the closure of createCache; the
   other fields are those of the method's last call. *)

TwoSlots == {1, 2}

\* fs.readdir has listed the directory: cacheKeyMap is built from its files,
\* logger.debug is called and the instance is returned
OnReaddir(rec, fs) ==
  LET made == [rec EXCEPT !.fsOps = @ + 1, !.listed = @ + 1, !.index = DOMAIN fs]
  IN  IF HasDebug(rec.logger) THEN [made EXCEPT !.pc = "ready"]
      ELSE Reject(made, Throw("TypeError", <<"logger.debug is not a function">>))

Readdir(i) ==
  /\ inv[i].pc = "readdir"
  /\ inv' = [inv EXCEPT ![i] = OnReaddir(@, files)]
  /\ UNCHANGED <<cacheDir, files, probe>>

\* createCache(options, logger) up to its first await
createCache(i, options) ==
  /\ inv[i].pc = "idle"
  /\ inv' = [inv EXCEPT ![i] =
               OnCreateCache([Idle EXCEPT !.input = [NoInput EXCEPT !.cache = options],
                                          !.logger = "logger"])]
  /\ UNCHANGED <<cacheDir, files, probe>>

\* createCache has returned the instance, and no method of it is running
Constructed(rec) == rec.pc \in {"ready", "returned", "rejected"}

\* the instance at the call of one of its methods with this input
Before(rec, input) ==
  [Idle EXCEPT !.input = input, !.logger = rec.logger, !.enabled = rec.enabled,
               !.index = rec.index, !.listed = rec.listed]

\* cache.get(input) up to its await: the mock, and a key that is not in
\* cacheKeyMap, return undefined; else fs.readFile is awaited
OnGet(rec, input, fs) ==
  LET at == Before(rec, input)
  IN  IF at.enabled /\ createHash(input) \in at.index
        THEN [at EXCEPT !.pc = "readFile"]
        ELSE [at EXCEPT !.pc = "returned"]

get(i, input) ==
  /\ Constructed(inv[i])
  /\ inv' = [inv EXCEPT ![i] = OnGet(@, input, files)]
  /\ UNCHANGED <<cacheDir, files, probe>>

\* fs.readFile, first part: the file is opened and fstat tells its size
OnReadOpen(rec, fs) ==
  [rec EXCEPT !.pc = "readRead", !.fsOps = @ + 1,
              !.size = Len(fs[createHash(rec.input)].bytes)]

ReadOpen(i) ==
  /\ inv[i].pc = "readFile"
  /\ inv' = [inv EXCEPT ![i] = OnReadOpen(@, files)]
  /\ UNCHANGED <<cacheDir, files, probe>>

\* one read of fs.readFile's loop, at the position the reads before it
\* have left (the characters read so far): what the file holds from there
\* on, and when fstat gave a size, no more than is missing up to that size
ReadChunk(bytes, size, text) ==
  LET rest == IF Len(text) >= Len(bytes) THEN <<>>
              ELSE SubSeq(bytes, Len(text) + 1, Len(bytes))
  IN  IF size = 0 \/ size - Len(text) >= Len(rest) THEN rest
      ELSE SubSeq(rest, 1, size - Len(text))

\* fs.readFile, second part: one turn of its read loop on the file as it is
\* now.  The loop ends when a read returns nothing or the size fstat gave is
\* reached (never, for size 0); else the next read is awaited
OnReadRead(rec, fs) ==
  LET chunk == ReadChunk(fs[createHash(rec.input)].bytes, rec.size, rec.text)
      read == [rec EXCEPT !.fsOps = @ + 1, !.text = @ \o chunk]
  IN  IF chunk = <<>> \/ Len(read.text) = rec.size
        THEN [read EXCEPT !.pc = "readClose"]
        ELSE read

ReadRead(i) ==
  /\ inv[i].pc = "readRead"
  /\ inv' = [inv EXCEPT ![i] = OnReadRead(@, files)]
  /\ UNCHANGED <<cacheDir, files, probe>>

\* fs.readFile, last part: the file is closed and the text is handed to get,
\* which returns JSON.parse of it
OnReadClose(rec) ==
  IF TextThrows(rec.text)
    THEN Reject(rec, Throw("SyntaxError", <<"JSON.parse">>))
    ELSE Return([rec EXCEPT !.hit = TRUE], ParseText(rec.text))

ReadClose(i) ==
  /\ inv[i].pc = "readClose"
  /\ inv' = [inv EXCEPT ![i] = OnReadClose(@)]
  /\ UNCHANGED <<cacheDir, files, probe>>

\* cache.put(input, data) up to its await: the mock returns; else
\* fs.writeFile is awaited with JSON.stringify(data)
OnPut(rec, input, data) ==
  LET at == [Before(rec, input) EXCEPT !.nodes = data, !.puts = 1]
  IN  IF at.enabled THEN [at EXCEPT !.pc = "putOpen"] ELSE [at EXCEPT !.pc = "returned"]

put(i, input, data) ==
  /\ Constructed(inv[i])
  /\ inv' = [inv EXCEPT ![i] = OnPut(@, input, data)]
  /\ UNCHANGED <<cacheDir, files, probe>>

\* fs.writeFile, first part: the file is created or truncated
OnPutOpen(rec) == [rec EXCEPT !.pc = "putWrite", !.fsOps = @ + 1]

FilesOnPutOpen(fs, rec) ==
  [k \in DOMAIN fs \cup {createHash(rec.input)} |->
     IF k # createHash(rec.input) THEN fs[k]
     ELSE [OpenedFile EXCEPT !.once = k \notin DOMAIN fs]]

PutOpen(i) ==
  /\ inv[i].pc = "putOpen"
  /\ files' = FilesOnPutOpen(files, inv[i])
  /\ inv' = [inv EXCEPT ![i] = OnPutOpen(@)]
  /\ UNCHANGED <<cacheDir, probe>>

\* the characters of a file after `new` is written at its start
Overwrite(old, new) ==
  IF Len(new) >= Len(old) THEN new ELSE new \o SubSeq(old, Len(new) + 1, Len(old))

\* mutant of OnPutWrite: put adds its key to cacheKeyMap
OnPutWriteUpdatesIndex(rec) ==
  [rec EXCEPT !.pc = "putClose", !.fsOps = @ + 1,
              !.index = @ \cup {createHash(rec.input)}]

\* fs.writeFile, second part: the text is written from the start of the file
OnPutWrite(rec) == [rec EXCEPT !.pc = "putClose", !.fsOps = @ + 1]

FilesOnPutWrite(fs, rec) ==
  [fs EXCEPT ![createHash(rec.input)] =
     [@ EXCEPT !.bytes = Overwrite(@, StringifyText(rec.nodes)), !.data = rec.nodes]]

PutWrite(i) ==
  /\ inv[i].pc = "putWrite"
  /\ files' = FilesOnPutWrite(files, inv[i])
  /\ inv' = [inv EXCEPT ![i] = OnPutWrite(@)]
  /\ UNCHANGED <<cacheDir, probe>>

\* fs.writeFile, last part: the file is closed, and put returns
OnPutClose(rec) == [rec EXCEPT !.pc = "returned"]

PutClose(i) ==
  /\ inv[i].pc = "putClose"
  /\ inv' = [inv EXCEPT ![i] = OnPutClose(@)]
  /\ UNCHANGED <<cacheDir, files, probe>>

CacheKeyInputs ==
  {RunInput([name |-> "shop1", accessToken |-> "shpat"], v, "query { products }", "undefined") :
     v \in ApiVersions}

InitCache ==
  /\ cacheDir = FALSE
  /\ files = <<>>
  /\ inv = [i \in TwoSlots |-> Idle]
  /\ probe = NoProbe

NextCache ==
  \E i \in TwoSlots :
    \/ \E options \in CacheOptions : createCache(i, options)
    \/ ReadPackageUp(i)
    \/ EnsureDir(i)
    \/ Readdir(i)
    \/ \E input \in CacheKeyInputs : get(i, input)
    \/ ReadOpen(i)
    \/ ReadRead(i)
    \/ ReadClose(i)
    \/ \E input \in CacheKeyInputs, data \in {<<[id |-> "1"]>>, <<[id |-> "Infinity"]>>} :
         put(i, input, data)
    \/ PutOpen(i)
    \/ PutWrite(i)
    \/ PutClose(i)
    \/ Release(i)

SpecCache == InitCache /\ [][NextCache]_vars


-----------------------------------------------------------------------------
(* createHash on its own: two inputs are drawn and hashed *)

VariableMaps ==
  {NoVariables,
   [present |-> TRUE, entries |-> <<>>],
   [present |-> TRUE, entries |-> <<<<"first", "10">>>>],
   [present |-> TRUE, entries |-> <<<<"first", "20">>>>],
   [present |-> TRUE, entries |-> <<<<"first", "10">>, <<"searchQuery", "tag:sale">>>>],
   [present |-> TRUE, entries |-> <<<<"searchQuery", "tag:sale">>, <<"first", "10">>>>]}

HashInputs ==
  [kind        : {"run"},
   name        : {"shop1", "shop2"},
   accessToken : {"shpat", "shpat-2"},
   apiVersion  : ApiVersions,
   query       : {"query { products }", "query { orders }"},
   variables   : VariableMaps,
   cache       : {"undefined"},
   operationId : {Undefined},
   document    : BOOLEAN]

InitHash ==
  /\ cacheDir = FALSE
  /\ files = <<>>
  /\ inv = [i \in Slots |-> Idle]
  /\ probe \in [pc : {"drawn"}, a : HashInputs, b : HashInputs, ka : {<<>>}, kb : {<<>>}]

HashBoth ==
  /\ probe.pc = "drawn"
  /\ probe' = [probe EXCEPT !.pc = "hashed",
                            !.ka = createHash(probe.a), !.kb = createHash(probe.b)]
  /\ UNCHANGED <<cacheDir, files, inv>>

NextHash == HashBoth

SpecHash == InitHash /\ [][NextHash]_vars

-----------------------------------------------------------------------------
(* replaceQueryVariables: the query formatter, on its own *)

\* variable references in the body of a query of the model
MaxRefs == 2

\* where a value stands: the value of an argument (of a field or of a
\* directive), the value of a field of an input object, an element of a list
Places == {"Argument", "ObjectField", "ListValue"}

\* a value node of the tree: a Variable carries name, a StringValue value
Variable(name, place) ==
  [kind |-> "Variable", name |-> name, value |-> "", place |-> place]
StringValue(value, place) ==
  [kind |-> "StringValue", name |-> "", value |-> value, place |-> place]

\* the documents parse() yields: an anonymous query with its variable
\* definitions (by name) and the variables its body refers to, in order
Documents ==
  [declared : {<<>>, <<"first">>, <<"searchQuery">>, <<"first", "searchQuery">>,
               <<"toString">>},
   values   : SeqsUpTo({Variable(n, p) : n \in {"first", "searchQuery", "toString"},
                                         p \in Places}, MaxRefs)]

\* what the variables object inherits: the properties of Object.prototype
\* (of the names of the model, toString), whose values are functions
ObjectPrototype == [n \in {"toString"} |-> "[Function: toString]"]

\* Reflect.has and Reflect.get on the variables object: both look for the
\* name among the object's own keys and then along its prototype chain
Has(variables, name) ==
  \/ \E k \in 1..Len(variables.entries) : variables.entries[k][1] = name
  \/ name \in DOMAIN ObjectPrototype
Get(variables, name) ==
  IF \E k \in 1..Len(variables.entries) : variables.entries[k][1] = name
    THEN variables.entries[CHOOSE k \in 1..Len(variables.entries) :
                             variables.entries[k][1] = name][2]
    ELSE ObjectPrototype[name]

\* the visitor's Variable function: what it returns replaces the node.  The
\* key under which visit() hands it a value node is the name of the parent's
\* field ('value'), or the index when the parent's field is an array
VisitVariable(node, variables) ==
  IF node.place = "ListValue" THEN node
  ELSE IF Has(variables, node.name)
    THEN StringValue(Get(variables, node.name), node.place)
  ELSE node

\* the visitor's VariableDefinition function returns null: the node is removed
VisitDefinitions(declared, variables) == <<>>

\* visit(ast, { Variable, VariableDefinition })
visit(ast, variables) ==
  [declared |-> VisitDefinitions(ast.declared, variables),
   values   |-> [k \in 1..Len(ast.values) |-> VisitVariable(ast.values[k], variables)]]

\* print(): the text, as tokens
RECURSIVE printDefinitions(_)
printDefinitions(declared) ==
  IF declared = <<>> THEN <<>>
  ELSE <<"$", Head(declared), ":", "Type">> \o printDefinitions(Tail(declared))

printValue(node) ==
  LET text == IF node.kind = "Variable" THEN <<"$", node.name>>
              ELSE <<"\"", node.value, "\"">>
  IN  CASE node.place = "Argument" -> <<"arg", ":">> \o text
        [] node.place = "ObjectField" -> <<"arg", ":", "{", "key", ":">> \o text \o <<"}">>
        [] node.place = "ListValue" -> <<"arg", ":", "[">> \o text \o <<"]">>

RECURSIVE printValues(_)
printValues(values) ==
  IF values = <<>> THEN <<>> ELSE printValue(Head(values)) \o printValues(Tail(values))

\* print(ast): the text; printing a StringValue calls value.replace, which
\* throws a TypeError for a value that is a function
printAST(ast) ==
  IF \E k \in 1..Len(ast.values), n \in DOMAIN ObjectPrototype :
       ast.values[k].kind = "StringValue" /\ ast.values[k].value = ObjectPrototype[n]
    THEN [error |-> Throw("TypeError", <<"str.replace is not a function">>),
          text |-> <<>>]
    ELSE [error |-> NoError,
          text |-> (IF ast.declared = <<>> THEN <<>>
                    ELSE <<"query", "(">> \o printDefinitions(ast.declared) \o <<")">>)
                   \o <<"{", "field", "(">> \o printValues(ast.values) \o <<")", "}">>]

\* editedAST, or ast itself when no variables are passed; the function
\* returns the text print gives, or throws what print throws
editedAST(ast, variables) ==
  IF ~variables.present THEN ast ELSE visit(ast, variables)

replaceQueryVariables(ast, variables) == printAST(editedAST(ast, variables))

InitFormat ==
  /\ cacheDir = FALSE
  /\ files = <<>>
  /\ inv = [i \in Slots |-> Idle]
  /\ probe \in [pc : {"drawn"}, ast : Documents, variables : VariableMaps,
                edited : {<<>>}, text : {<<>>}, error : {NoError}]

Format ==
  /\ probe.pc = "drawn"
  /\ probe' = [probe EXCEPT !.pc = "formatted",
                            !.edited = editedAST(probe.ast, probe.variables),
                            !.text = replaceQueryVariables(probe.ast, probe.variables).text,
                            !.error = replaceQueryVariables(probe.ast, probe.variables).error]
  /\ UNCHANGED <<cacheDir, files, inv>>

NextFormat == Format

SpecFormat == InitFormat /\ [][NextFormat]_vars
-----------------------------------------------------------------------------
(* waitForQuery and the remote job it polls.  probe is the job as the
   platform holds it; a status response reports the job as it is when the
   query is answered.  The steps of the call are taken fairly (the event
   loop runs every continuation and timer that is ready, and every request
   is answered); the job itself may stay in any state for ever. *)

\* the job when the call starts
NewJob ==
  [pc |-> "job", status |-> "CREATED", errorCode |-> "", objectCount |-> "0", url |-> ""]

\* the states the platform lets a job move to
JobMoves(job) ==
  CASE job.status = "CREATED" -> {[job EXCEPT !.status = "RUNNING"]}
    [] job.status = "RUNNING" ->
         {[job EXCEPT !.status = "COMPLETED"],
          [job EXCEPT !.status = "COMPLETED", !.objectCount = "2",
                      !.url = "https://storage/bulk-1.jsonl"],
          [job EXCEPT !.status = "FAILED"],
          [job EXCEPT !.status = "FAILED", !.errorCode = "TIMEOUT"],
          [job EXCEPT !.status = "CANCELING"]}
    [] job.status = "CANCELING" -> {[job EXCEPT !.status = "CANCELED"]}
    [] OTHER -> {}

JobResponse(job) ==
  StatusResponse(FALSE, <<>>, "BulkOperation", job.errorCode, job.status,
                 job.objectCount, job.url)

InitLive ==
  /\ cacheDir = FALSE
  /\ files = <<>>
  /\ inv = [i \in Slots |-> Idle]
  /\ probe = NewJob

JobStep ==
  /\ \E job \in JobMoves(probe) : probe' = job
  /\ UNCHANGED <<cacheDir, files, inv>>

\* the status query is answered: with the job as it is, or the request fails
LiveStatusReply ==
  \/ StatusReply(1, JobResponse(probe))
  \/ StatusReply(1, StatusResponse(TRUE, <<>>, "null", "", Undefined, "0", ""))

\* pWaitFor's timer fires; the history of calls is kept up to MaxPolls
LiveTick ==
  /\ inv[1].pc = "suspend"
  /\ inv' = [inv EXCEPT ![1] =
               IF StatusCalls(1) < MaxPolls THEN OnTick(@)
               ELSE [@ EXCEPT !.pc = "awaitStatus", !.status = NoStatus, !.timer = 0,
                              !.replies = MaxPolls - 1,
                              !.suspends = MaxPolls - 1]]
  /\ UNCHANGED <<cacheDir, files, probe>>

\* the steps of the call
LiveCall ==
  \/ \E interval \in {NoInterval, ConfiguredInterval} : waitForQuery(1, SubmittedId, interval)
  \/ LiveStatusReply
  \/ LiveTick

NextLive == JobStep \/ LiveCall

SpecLive == InitLive /\ [][NextLive]_vars /\ WF_vars(LiveCall)

-----------------------------------------------------------------------------
(* Two calls that differ in input.logs only, side by side, each over its own
   copy of the same cache directory (files and cacheDir for the first,
   probe.files and probe.cacheDir for the second).  Call 1 (inv[1]) has no
   logs option; call 2 (probe.rec) has any. *)


InitLogs ==
  /\ files \in Directories
  /\ cacheDir = (files # <<>>)
  /\ inv = [i \in Slots |-> Idle]
  /\ probe = [pc |-> "logs", rec |-> Idle, files |-> files, cacheDir |-> cacheDir]

\* the step `new` for a call that is at `pc`, no step for a call that is not
StepAt(rec, pc, new) == IF rec.pc = pc THEN new ELSE rec

At(pc) == inv[1].pc = pc \/ probe.rec.pc = pc

LogsCall(input, logs) ==
  /\ inv[1].pc = "idle" /\ probe.rec.pc = "idle"
  /\ inv' = [inv EXCEPT ![1] = OnCall(input)]
  /\ probe' = [probe EXCEPT !.rec = OnCall(WithLogs(input, logs))]
  /\ UNCHANGED <<cacheDir, files>>

LogsReadPackageUp ==
  /\ At("readPackageUp")
  /\ inv' = [inv EXCEPT ![1] = StepAt(@, "readPackageUp", OnReadPackageUp(@))]
  /\ probe' = [probe EXCEPT !.rec = StepAt(@, "readPackageUp", OnReadPackageUp(@))]
  /\ UNCHANGED <<cacheDir, files>>

LogsEnsureDir ==
  /\ At("ensureDir")
  /\ cacheDir' = (cacheDir \/ inv[1].pc = "ensureDir")
  /\ inv' = [inv EXCEPT ![1] = StepAt(@, "ensureDir", OnEnsureDir(@))]
  /\ probe' = [probe EXCEPT !.rec = StepAt(@, "ensureDir", OnEnsureDir(@)),
                            !.cacheDir = (@ \/ probe.rec.pc = "ensureDir")]
  /\ UNCHANGED files

NextLogs ==
  \/ \E input \in {i \in Inputs : i.logs = "undefined"}, logs \in {"undefined", "true", "error", "console", "throws"} :
        LogsCall(input, logs)
  \/ LogsReadPackageUp
  \/ LogsEnsureDir

SpecLogs == InitLogs /\ [][NextLogs]_vars

-----------------------------------------------------------------------------
(* Two calls in flight over one cache directory *)

TwoInputs ==
  {RunInput([name |-> "shop1", accessToken |-> "shpat"], Undefined, "query { products }", c) :
     c \in {"undefined", "false"}}
  \cup {ResumeInput([name |-> "shop1", accessToken |-> "shpat"], Undefined, SubmittedId, c) :
     c \in {"undefined", "false"}}

InitTwo ==
  /\ files \in Directories
  /\ cacheDir = (files # <<>>)
  /\ inv = [i \in TwoSlots |-> Idle]
  /\ probe = Remote(Accepted, <<Job("COMPLETED", "", "2", "https://storage/bulk-1.jsonl")>>,
                    FALSE, <<"{\"id\":1}">>)

NextTwo ==
  \E i \in TwoSlots :
    \/ \E input \in TwoInputs : Call(i, input)
    \/ ReadPackageUp(i)
    \/ EnsureDir(i)
    \/ Release(i)

SpecTwo == InitTwo /\ [][NextTwo]_vars

-----------------------------------------------------------------------------
(* Properties *)

\* the response is a status report of the job: the request succeeded, there
\* are no top-level errors and data.bulk is a BulkOperation
Reports(r) == ~r.fault /\ r.errors = <<>> /\ r.typename = "BulkOperation"

\* the response reports the job Completed with no error code
ReportsCompleted(r) == Reports(r) /\ r.errorCode = "" /\ r.status = "COMPLETED"

NonBlank(lines) == SelectSeq(lines, LAMBDA l : l # BlankLine)

\* the input passes the asserts, and the methods of its logger return
Valid(input) == Validate(input) = NoError /\ ~LoggerThrows(input.logs)

Key(i) == createHash(inv[i].input)

\* the call's cache is enabled and the directory holds a file for its key
Finds(i) == CacheEnabled(inv[i].input.cache) /\ Key(i) \in DOMAIN files

\* the response the platform gives to the status query that ends the polling
LastStatus == probe.statuses[Len(probe.statuses)]

\* the call has ended; its input is valid, no file is found for its key, and
\* the platform has a job for it to poll
Polls(i) ==
  /\ Ended(i) /\ Valid(inv[i].input) /\ ~Finds(i)
  /\ inv[i].input.kind = "resume" \/ probe.submit = Accepted

\* the result file is read to its end without an error
\* the records of a body: its blank lines skipped, every other line decoded
RECURSIVE ParseLines(_)
ParseLines(lines) ==
  IF lines = <<>> THEN <<>>
  ELSE IF Head(lines) = BlankLine THEN ParseLines(Tail(lines))
       ELSE <<JSONparse(Head(lines))>> \o ParseLines(Tail(lines))

LinesThrow(lines) ==
  \E k \in 1..Len(lines) : lines[k] # BlankLine /\ ParseThrows(lines[k])

\* the lines the loop goes through without a throw
RECURSIVE GoodPrefix(_)
GoodPrefix(lines) ==
  IF lines = <<>> THEN <<>>
  ELSE IF Head(lines) # BlankLine /\ ParseThrows(Head(lines)) THEN <<>>
       ELSE <<Head(lines)>> \o GoodPrefix(Tail(lines))

\* the error of a download of these lines: JSON.parse's at the first line
\* that cannot be parsed, else the stream's when it fails after them
StreamError(fault, lines) ==
  IF LinesThrow(lines)
    THEN Throw("SyntaxError", <<"JSON.parse", lines[Len(GoodPrefix(lines)) + 1]>>)
  ELSE IF fault THEN Throw("RequestError", <<"stream failed">>)
  ELSE NoError

Streams == StreamError(probe.fault, probe.lines) = NoError

\* C1: a Run whose cache lookup finds an entry for the key of its request
\* returns that entry with no submit call, no status call and no stream
\* fetch, and what it returns equals what the Run that stored the entry
\* returned.
C1_CacheHitEqualsFirstOutput ==
  \A i \in Slots :
    (/\ Ended(i) /\ Valid(inv[i].input) /\ inv[i].input.kind = "run"
     /\ Finds(i) /\ ~TextThrows(files[Key(i)].bytes)) =>
      /\ inv[i].pc = "returned"
      /\ inv[i].calls = <<>>
      /\ inv[i].result = files[Key(i)].data

C3_EmptyResultNotCached ==
  \A i \in Slots :
    (/\ Polls(i) /\ inv[i].input.kind = "run"
     /\ ReportsCompleted(LastStatus) /\ LastStatus.objectCount = "0") =>
      /\ inv[i].pc = "returned" /\ inv[i].result = <<>>
      /\ StreamFetches(i) = 0 /\ inv[i].puts = 0
      /\ Key(i) \notin DOMAIN files
      /\ SubmitCalls(i) = 1 /\ StatusCalls(i) = Len(probe.statuses)

\* C4: when a status poll reports Completed with a nonzero object count and
\* the url U, the call makes one stream fetch, of U, and returns the parsed
\* lines of the file in their order.
C4_OneFetchInLineOrder ==
  \A i \in Slots :
    (/\ Polls(i) /\ ReportsCompleted(LastStatus)
     /\ LastStatus.objectCount # "0" /\ LastStatus.url # "" /\ Streams) =>
      /\ StreamFetches(i) = 1
      /\ inv[i].calls[Len(inv[i].calls)] = <<"stream", LastStatus.url>>
      /\ inv[i].pc = "returned"
      /\ inv[i].result = ParseLines(probe.lines)

\* C5: when a status response reports a job with an error code, whatever its
\* status, the call rejects with the error that carries the code, and no
\* status query, stream fetch or cache write follows.
C5_ErrorCodeRejects ==
  \A i \in Slots :
    (Polls(i) /\ Reports(LastStatus) /\ LastStatus.errorCode # "") =>
      /\ inv[i].pc = "rejected"
      /\ inv[i].error = Throw("Error", <<"Bulk operation failed, with an error code of ",
                                          LastStatus.errorCode>>)
      /\ StatusCalls(i) = Len(probe.statuses)
      /\ StreamFetches(i) = 0 /\ inv[i].puts = 0

C7_DisabledCacheNoFilesystem ==
  /\ [](\A i \in Slots :
          inv[i].input.cache = "false" =>
            /\ inv[i].fsOps = 0
            /\ inv[i].index = {}
            /\ ~inv[i].hit
            /\ inv[i].pc \notin {"readPackageUp", "ensureDir", "readdir"})
  /\ [][\A i \in Slots :
          inv[i].input.cache = "false" => (files' = files /\ cacheDir' = cacheDir)]_vars

C7_Witness ==
  \E i \in Slots :
    /\ inv[i].input.cache = "false" /\ Valid(inv[i].input)
    /\ Ended(i) /\ inv[i].fsOps = 0
    /\ ~cacheDir

\* C9: a Run without a store name, an access token or a query fails on an
\* assertion before any cache access and before any remote call.
C9_MissingInputRejected ==
  \A i \in Slots :
    (/\ inv[i].input.kind = "run"
     /\ \/ inv[i].input.name = ""
        \/ inv[i].input.accessToken = ""
        \/ inv[i].input.query = "") =>
       /\ inv[i].pc = "rejected"
       /\ inv[i].error.type = "AssertionError"
       /\ inv[i].calls = <<>>
       /\ inv[i].fsOps = 0
       /\ inv[i].logger = "none"
       /\ ~inv[i].hit

C9_Witness ==
  \E i \in Slots :
    /\ inv[i].input.kind = "run"
    /\ inv[i].input.name # "" /\ inv[i].input.accessToken # "" /\ inv[i].input.query = ""
    /\ inv[i].pc = "rejected"
    /\ inv[i].error = Throw("AssertionError", <<"Missing input query - input.query">>)
    /\ files # <<>>

\* C10: a Run on a cache miss whose k-th status response is the first that
\* is not Continue, and reports Completed with a nonzero object count, makes
\* one submit call, k status calls and one stream fetch.
C10_CallCounts ==
  \A i \in Slots :
    (/\ Polls(i) /\ inv[i].input.kind = "run"
     /\ ReportsCompleted(LastStatus) /\ LastStatus.objectCount # "0") =>
      /\ SubmitCalls(i) = 1
      /\ StatusCalls(i) = Len(probe.statuses)
      /\ StreamFetches(i) = 1

\* C12: when the stream fails or a line fails to parse, after any number of
\* lines, the call rejects with that error: the caller gets no array, and no
\* file is written for the request.
C12_StreamFaultRejects ==
  \A i \in Slots :
    (/\ Polls(i) /\ Classify(LastStatus).tag = "Success" /\ ~Streams) =>
      /\ inv[i].pc = "rejected"
      /\ inv[i].error = StreamError(probe.fault, probe.lines)
      /\ inv[i].result = <<>>
      /\ inv[i].puts = 0 /\ Key(i) \notin DOMAIN files

\* the variables as a map: the set of its key/value pairs
EntrySet(variables) == {variables.entries[k] : k \in 1..Len(variables.entries)}

SameRequest(a, b) ==
  /\ a.query = b.query
  /\ a.name = b.name
  /\ a.apiVersion = b.apiVersion
  /\ a.variables.present = b.variables.present
  /\ EntrySet(a.variables) = EntrySet(b.variables)

ScenarioError(i) ==
  IF inv[i].input.kind = "run" /\ SubmitError(probe.submit) # NoError
    THEN SubmitError(probe.submit)
  ELSE IF Classify(LastStatus).tag = "Fatal" THEN Classify(LastStatus).error
  ELSE IF Classify(LastStatus).tag = "Success" THEN StreamError(probe.fault, probe.lines)
  ELSE NoError

\* C19: no error is retried.  A call on a cache miss rejects with the first
\* error of the submission, of a status poll or of the stream, and has made
\* no submit call, status query or stream fetch after it.
C19_NoRetryAfterError ==
  \A i \in Slots :
    (/\ Ended(i) /\ Valid(inv[i].input) /\ ~Finds(i)
     /\ ScenarioError(i) # NoError) =>
      /\ inv[i].pc = "rejected"
      /\ inv[i].error = ScenarioError(i)
      /\ SubmitCalls(i) <= 1
      /\ StatusCalls(i) <= Len(probe.statuses)
      /\ StreamFetches(i) <= 1

\* the place of a remote call in the order of the stages
StageOf(call) ==
  CASE call[1] = "submit" -> 1
    [] call[1] = "status" -> 2
    [] OTHER -> 3

HandleOf(rec) ==
  IF rec.input.kind \in {"resume", "waitForQuery"} THEN rec.input.operationId
  ELSE rec.handle

\* C28: the handle of a call does not change.  Every status query of a call
\* carries its handle: input.operationId for a Resume, the argument for
\* waitForQuery, the id the submission returned for a Run; and a handle,
\* once the call has one, stays as it is to the end of the call.
C28_HandleImmutable ==
  /\ [](\A i \in Slots : \A k \in 1..Len(inv[i].calls) :
          inv[i].calls[k][1] = "status" => inv[i].calls[k][2] = HandleOf(inv[i]))
  /\ [][\A i \in Slots :
          (inv[i].handle # Undefined /\ inv'[i].pc # "idle") =>
            inv'[i].handle = inv[i].handle]_vars

\* waitForQuery, called with a handle that is not the one the platform gives
\* to a new job, has ended after two status queries or more, each for that
\* handle
C28_Witness ==
  \E i \in Slots :
    /\ inv[i].input.kind = "waitForQuery" /\ Ended(i)
    /\ inv[i].input.operationId = "gid://shopify/BulkOperation/999"
    /\ StatusCalls(i) >= 2
    /\ \A k \in 1..Len(inv[i].calls) :
         inv[i].calls[k] = <<"status", "gid://shopify/BulkOperation/999">>

\* C30: the key of a Resume does not depend on operationId, access token,
\* interval, logs or cache option: inputs with the same query, variables,
\* store name and API version have the same key.  So a Resume (with its cache
\* in use) that is called when an earlier call of the same request, for any
\* handle, has stored its result returns the earlier result and makes no
\* status query for its own handle.
C30_ResumeKeyIgnoresHandle ==
  /\ \A a, b \in Inputs : SameRequest(a, b) => createHash(a) = createHash(b)
  /\ \A i \in Slots :
       (/\ Ended(i) /\ Valid(inv[i].input) /\ inv[i].input.kind = "resume"
        /\ Finds(i) /\ ~TextThrows(files[Key(i)].bytes)) =>
         /\ inv[i].pc = "returned" /\ inv[i].hit
         /\ StatusCalls(i) = 0
         /\ inv[i].result = files[Key(i)].data

\* a response that reports a completed job with objects and no download url
ReportsCompletedWithoutUrl(r) ==
  ReportsCompleted(r) /\ r.objectCount # "0" /\ r.url = ""

\* C31: when a status response reports Completed with a nonzero object count
\* and no download url, polling stops and the call returns the empty array
\* without an error, with no stream fetch and no cache write.
C31_CompletedWithoutUrlReturnsEmpty ==
  \A i \in Slots :
    (Polls(i) /\ ReportsCompletedWithoutUrl(LastStatus)) =>
      /\ inv[i].pc = "returned" /\ inv[i].result = <<>>
      /\ inv[i].error = NoError
      /\ StatusCalls(i) = Len(probe.statuses)
      /\ StreamFetches(i) = 0 /\ inv[i].puts = 0

\* the stored request with the default API version stated
StatedDefault == [StoredRequest EXCEPT !.apiVersion = DEFAULT_API_VERSION]

\* C33: the cache key is computed from the API version as given.  A request
\* without apiVersion and the same request with the default version stated
\* have the same endpoint and different keys, so a Run of the second, when the directory holds the
\* entry of the first, misses it and posts the mutation.
C33_KeyFromGivenVersion ==
  /\ Endpoint(StoredRequest) = Endpoint(StatedDefault)
  /\ createHash(StoredRequest) # createHash(StatedDefault)
  /\ \A i \in Slots :
       (/\ Ended(i) /\ Valid(inv[i].input) /\ inv[i].input.kind = "run"
        /\ SameRequest(inv[i].input, StatedDefault)
        /\ CacheEnabled(inv[i].input.cache)
        /\ createHash(StoredRequest) \in DOMAIN files) =>
         /\ ~inv[i].hit
         /\ SubmitCalls(i) = 1

\* C34: when the directory holds a file for the key of a call and its text
\* cannot be parsed (a put has opened it and not yet written it), the call
\* rejects with the error of JSON.parse: it makes no remote call and returns
\* nothing.
C34_UndecodableEntryRejects ==
  \A i \in Slots :
    (/\ Ended(i) /\ Valid(inv[i].input)
     /\ Finds(i) /\ TextThrows(files[Key(i)].bytes)) =>
      /\ inv[i].pc = "rejected"
      /\ inv[i].error = Throw("SyntaxError", <<"JSON.parse">>)
      /\ inv[i].calls = <<>>
      /\ inv[i].result = <<>>

\* C35: the cache does not join calls in flight: two Runs of one request, in
\* flight together over a directory without an entry for their key, each
\* post the mutation.
C35_NoInFlightDeduplication ==
  \A i, j \in TwoSlots :
    (/\ i # j /\ Ended(i) /\ Ended(j)
     /\ inv[i].input.kind = "run" /\ inv[j].input.kind = "run"
     /\ Key(i) = Key(j)
     /\ CacheEnabled(inv[i].input.cache) /\ CacheEnabled(inv[j].input.cache)
     /\ Key(i) \notin DOMAIN files) =>
      /\ SubmitCalls(i) = 1
      /\ SubmitCalls(j) = 1

\* C37: a result file with no non-blank line ends a Success outcome with the
\* empty array, which is written to the cache; a Run that finds the entry
\* "[]" returns the empty array from it with no remote call.
C37_EmptyEntryIsAHit ==
  \A i \in Slots :
    /\ (/\ Polls(i) /\ inv[i].input.kind = "run" /\ CacheEnabled(inv[i].input.cache)
        /\ Classify(LastStatus).tag = "Success" /\ Streams
        /\ NonBlank(probe.lines) = <<>>) =>
         (inv[i].pc = "returned" /\ inv[i].result = <<>> /\ inv[i].puts = 1)
    /\ (/\ Ended(i) /\ Valid(inv[i].input) /\ inv[i].input.kind = "run"
        /\ Finds(i) /\ files[Key(i)].bytes = StringifyText(<<>>)) =>
         (inv[i].pc = "returned" /\ inv[i].hit /\ inv[i].result = <<>>
          /\ inv[i].calls = <<>>)

\* the two calls are equal but for input.logs, and so are their directories
SameOutcome ==
  /\ [probe.rec EXCEPT !.input = inv[1].input] = inv[1]
  /\ probe.files = files /\ probe.cacheDir = cacheDir

\* C29: two calls that differ only in the logs setting, or in what the
\* logger given by the caller does, have, when both have ended, made the
\* same remote calls and the same accesses to their cache directories, and
\* have ended with the same result or the same error.
C29_LogsDoNotInfluence ==
  (/\ probe.pc = "logs"
   /\ inv[1].pc \in {"returned", "rejected"}
   /\ probe.rec.pc \in {"returned", "rejected"}) => SameOutcome

NonBlankUpTo(lines, p) == Cardinality({k \in 1..p : lines[k] # BlankLine})

\* C11: the streamer skips every blank (empty) line, a trailing one included,
\* and decodes every other line as one record: the array it returns has as
\* many records as the file has non-blank lines, and the record of the n-th
\* non-blank line is the n-th of the array.
C11_BlankLinesSkipped ==
  \A i \in Slots :
    (inv[i].input.kind = "downloadData" /\ inv[i].pc = "returned") =>
      /\ Len(inv[i].result) = NonBlankUpTo(inv[i].body, Len(inv[i].body))
      /\ \A p \in 1..Len(inv[i].body) :
           inv[i].body[p] # BlankLine =>
             inv[i].result[NonBlankUpTo(inv[i].body, p)] = JSONparse(inv[i].body[p])

C11_Witness ==
  \E i \in Slots :
    /\ inv[i].input.kind = "downloadData" /\ inv[i].pc = "returned"
    /\ Len(inv[i].body) = MaxLines
    /\ inv[i].body[MaxLines] = BlankLine
    /\ Len(inv[i].result) = MaxLines - 1


\* the errors of the submission by the names the specification gives them
SubmitProtocolError ==
  Throw("Error", <<"Missing data.bulkOperationRunQuery key in response from bulk operation start mutation.">>)
RemoteUserError(text) == Throw("Error", <<text>>)
JobCreationFailed == Throw("Error", <<"Failed to create bulk operation.">>)
MissingJobHandle == Throw("Error", <<"Missing bulk operation ID from the returned response.">>)


\* call i has received the response to its mutation
Submitted(i) ==
  /\ SubmitCalls(i) = 1
  /\ inv[i].pc # "awaitSubmit"
  /\ ~inv[i].reply.fault

\* startBulkQuery has thrown err in call i
SubmitFailedWith(i, err) ==
  /\ inv[i].pc = "rejected"
  /\ inv[i].error = err
  /\ StatusCalls(i) = 0

\* the four cases of the claim, for the response r of call i
SubmitCases(i, r) ==
  /\ inv[i].pc = "returned" =>
       /\ r.payload /\ r.userErrors = <<>>
       /\ r.operation /\ r.status # "FAILED" /\ r.id # ""
       /\ inv[i].handle = r.id
  /\ ~r.payload => SubmitFailedWith(i, SubmitProtocolError)
  /\ (r.payload /\ r.userErrors # <<>>) =>
       SubmitFailedWith(i, RemoteUserError(r.userErrors[1]))
  /\ (r.payload /\ r.userErrors = <<>> /\ r.operation /\ r.status = "FAILED") =>
       SubmitFailedWith(i, JobCreationFailed)
  /\ (/\ r.payload /\ r.userErrors = <<>>
      /\ ~(r.operation /\ r.status = "FAILED")
      /\ (~r.operation \/ r.id = "")) =>
       SubmitFailedWith(i, MissingJobHandle)

\* C13 as stated: the submission returns a job handle only if the response has
\* the payload, no user errors, a status that is not FAILED and an id;
\* otherwise it fails with the protocol error (no payload), the first user
\* error, the creation failure or the missing handle, in this order.
C13_SubmitClassification ==
  \A i \in Slots : Submitted(i) => SubmitCases(i, inv[i].reply)

\* C13, amended: the same for a response without top-level errors; a response
\* with top-level errors fails with the first of them, whatever else it holds.
C13_SubmitClassificationNoErrors ==
  \A i \in Slots :
    Submitted(i) =>
      IF inv[i].reply.errors = <<>>
        THEN SubmitCases(i, inv[i].reply)
        ELSE SubmitFailedWith(i, RemoteUserError(inv[i].reply.errors[1]))

C13_Witness ==
  \E i \in Slots :
    /\ Submitted(i)
    /\ inv[i].reply.errors = <<>>
    /\ Len(inv[i].reply.userErrors) = 2
    /\ inv[i].reply.userErrors[1] # inv[i].reply.userErrors[2]
    /\ SubmitFailedWith(i, RemoteUserError(inv[i].reply.userErrors[1]))

\* how many times token t occurs in a text
Occurrences(text, t) == Cardinality({k \in 1..Len(text) : text[k] = t})

\* the name is a key of the variable map
IsKey(variables, name) ==
  \E k \in 1..Len(variables.entries) : variables.entries[k][1] = name

\* C14: with a variable map, every variable reference of the body whose name
\* is a key of the map is replaced with the string literal of the map's
\* value, wherever it stands (argument, object field, list element).
C14_EveryReferenceReplaced ==
  (probe.pc = "formatted" /\ probe.variables.present) =>
    \A k \in 1..Len(probe.ast.values) :
      IsKey(probe.variables, probe.ast.values[k].name) =>
        probe.edited.values[k] =
          StringValue(Get(probe.variables, probe.ast.values[k].name),
                      probe.ast.values[k].place)

\* C15: with a variable map, even an empty one, the output has no variable
\* definition, and every variable of the body that is not a key of the map
\* is still a reference to that variable, in the tree and in the text that
\* is returned.
C15_DefinitionsRemoved ==
  (probe.pc = "formatted" /\ probe.variables.present) =>
    /\ probe.edited.declared = <<>>
    /\ Occurrences(probe.text, "Type") = 0
    /\ Occurrences(probe.text, "query") = 0
    /\ \A k \in 1..Len(probe.ast.values) :
         ~IsKey(probe.variables, probe.ast.values[k].name) =>
           probe.edited.values[k] = probe.ast.values[k]
    /\ Occurrences(probe.text, "$") >=
         Cardinality({k \in 1..Len(probe.ast.values) :
                        ~IsKey(probe.variables, probe.ast.values[k].name)})

\* C17: when a status poll reports the job in the status FAILED, the call
\* rejects instead of polling again.
C17_FailedStatusRejects ==
  \A i \in Slots :
    (Reports(inv[i].status) /\ inv[i].status.status = "FAILED") =>
      /\ inv[i].pc = "rejected"
      /\ inv[i].error.type = "Error"
      /\ inv[i].outcome = "Fatal"

\* the remote job is in a terminal state: Completed (with or without
\* objects) or Failed
JobTerminal == probe.pc = "job" /\ probe.status \in {"COMPLETED", "FAILED"}

\* C18: with the call's steps taken fairly, once the remote job is in a
\* terminal state (Completed, with or without objects, or Failed) a call that
\* is polling it eventually returns or rejects; and as long as the last
\* status response was classified Continue the call has not ended.
C18_TerminalJobEndsCall ==
  /\ (JobTerminal /\ inv[1].pc # "idle") ~> Ended(1)
  /\ [](inv[1].outcome = "Continue" => ~Ended(1))


\* the rejection of a call with an Error of this text
RejectedWith(i, message) ==
  inv[i].pc = "rejected" /\ inv[i].error = [type |-> "Error", message |-> message]

\* the tag and the error the ordered rules give a status response
RuleHolds(i, r) ==
  IF r.errors # <<>>
    THEN inv[i].outcome = "Fatal" /\ RejectedWith(i, <<r.errors[1]>>)
  ELSE IF r.typename = "null"
    THEN /\ inv[i].outcome = "Fatal"
         /\ RejectedWith(i, <<"Missing data.bulk key in response from bulk operation status query.">>)
  ELSE IF r.typename # "BulkOperation"
    THEN /\ inv[i].outcome = "Fatal"
         /\ RejectedWith(i, <<"Wrong typename returned from the bulk operation status query - this is likely a library error, so open an issue on GitHub.">>)
  ELSE IF r.errorCode # ""
    THEN /\ inv[i].outcome = "Fatal"
         /\ RejectedWith(i, <<"Bulk operation failed, with an error code of ", r.errorCode>>)
  ELSE IF r.status = "COMPLETED"
    THEN inv[i].outcome = (IF r.objectCount = "0" THEN "EmptyResult" ELSE "Success")
  ELSE inv[i].outcome = "Continue" /\ inv[i].pc = "suspend"

\* C20: every status response received gets exactly one of the four tags,
\* the one of the first rule that applies: top-level errors, payload absent
\* or of the wrong kind, error code, status Completed (by object count), else
\* Continue; the tag is a function of the response alone, whatever the number
\* of earlier ticks.
C20_ClassifiedByFirstRule ==
  \A i \in Slots :
    (inv[i].status # NoStatus /\ ~inv[i].status.fault) =>
      /\ inv[i].outcome \in {"Continue", "Success", "EmptyResult", "Fatal"}
      /\ RuleHolds(i, inv[i].status)

\* a second tick's response with both top-level errors and no payload
C20_Witness ==
  \E i \in Slots :
    /\ inv[i].replies = 2 /\ ~inv[i].status.fault
    /\ inv[i].status.errors # <<>> /\ inv[i].status.typename = "null"
    /\ inv[i].outcome = "Fatal"

\* a response that reports a job that has not finished, without errors and
\* without an error code
ReportsUnfinished(r) ==
  /\ Reports(r) /\ r.errorCode = ""
  /\ r.status \in {"CREATED", "RUNNING", "CANCELING", "CANCELED", "EXPIRED"}

\* C21: a status response of Created, Running, Canceling, Canceled or Expired
\* without errors and error code is classified Continue and the call is
\* suspended on a timer of input.interval, 20000 ms when the input has none;
\* the next step of a suspended call is one more status query for the same
\* handle.
C21_UnfinishedSuspendsThenPolls ==
  /\ [](\A i \in Slots :
          ReportsUnfinished(inv[i].status) =>
            /\ inv[i].outcome = "Continue"
            /\ inv[i].pc = "suspend"
            /\ inv[i].timer = (IF inv[i].input.interval.present
                                 THEN inv[i].input.interval.ms ELSE 20000))
  /\ [][\A i \in Slots :
          (inv[i].pc = "suspend" /\ inv'[i] # inv[i]) =>
            /\ inv'[i].pc = "awaitStatus"
            /\ inv'[i].calls = Append(inv[i].calls, <<"status", inv[i].handle>>)]_vars

\* a call with interval 5000 suspended a second time, on a Canceled job
C21_Witness ==
  \E i \in Slots :
    /\ inv[i].input.interval = ConfiguredInterval
    /\ inv[i].status.status = "CANCELED" /\ ReportsUnfinished(inv[i].status)
    /\ inv[i].replies = 2 /\ inv[i].pc = "suspend" /\ inv[i].timer = 5000

\* C23: the status ticks of a call do not overlap.  At most one status query
\* is without its response, and only while the call waits for it; a status
\* query after the first is posted only by a call that is suspended on its
\* timer after the response of the tick before was classified Continue; a
\* tick posts exactly one query, for the same handle.
C23_TicksDoNotOverlap ==
  /\ [](\A i \in Slots :
          StatusCalls(i) = inv[i].replies + (IF inv[i].pc = "awaitStatus" THEN 1 ELSE 0))
  /\ [][\A i \in Slots :
          CountCalls(inv'[i].calls, "status") > StatusCalls(i) =>
            /\ inv'[i].calls = Append(inv[i].calls, <<"status", inv'[i].handle>>)
            /\ StatusCalls(i) > 0 =>
                 /\ inv[i].pc = "suspend" /\ inv[i].timer > 0
                 /\ inv[i].outcome = "Continue"
                 /\ inv[i].replies = StatusCalls(i)
                 /\ inv'[i].handle = inv[i].handle]_vars

\* the third tick's query is out, two responses have been classified
C23_Witness ==
  \E i \in Slots :
    inv[i].pc = "awaitStatus" /\ StatusCalls(i) = 3 /\ inv[i].replies = 2

\* the polling of call i is over: pWaitFor has settled
PollingOver(i) == StatusCalls(i) >= 1 /\ Ended(i)

\* C36: the first status query has no suspension before it, a call is
\* suspended only after a reply classified Continue, and once the polling is
\* over a call that made k status queries has suspended k - 1 times: there is
\* no suspension after the terminal tick.
C36_SuspendsBetweenQueries ==
  \A i \in Slots :
    LET k == StatusCalls(i)
        s == inv[i].suspends
    IN  /\ k = 0 => s = 0
        /\ inv[i].pc = "awaitStatus" => s = k - 1 /\ inv[i].replies = k - 1
        /\ inv[i].pc = "suspend" =>
             /\ s = k /\ inv[i].replies = k
             /\ inv[i].outcome = "Continue" /\ Classify(inv[i].status).tag = "Continue"
        /\ PollingOver(i) =>
             /\ s = k - 1 /\ inv[i].replies = k
             /\ inv[i].outcome # "Continue"

\* a call has finished after three status queries and two suspensions
C36_Witness ==
  \E i \in Slots :
    /\ PollingOver(i) /\ inv[i].pc = "returned"
    /\ StatusCalls(i) = MaxPolls /\ inv[i].suspends = MaxPolls - 1
    /\ MaxPolls >= 2

\* C8: two inputs with the same query, variables (as a map, whatever the
\* order of its keys), store name and API version have the same key; two
\* inputs that differ in one of the four have different keys.
C8_KeyDeterminedByRequest ==
  probe.pc = "hashed" => ((probe.ka = probe.kb) <=> SameRequest(probe.a, probe.b))

\* createCache has returned the instance of slot i
Built(i) == inv[i].pc \notin {"idle", "readPackageUp", "ensureDir", "readdir"}

\* a call of get on the instance of slot i has ended
GotEnded(i) == Ended(i) /\ inv[i].input.kind = "run" /\ inv[i].puts = 0

\* C25: with the cache enabled the directory is listed exactly once, to
\* build the index: when a call with its cache in use has ended, the
\* directory has been listed once.
C25_ListedOncePerProcess ==
  \A i \in Slots :
    (Ended(i) /\ Valid(inv[i].input) /\ CacheEnabled(inv[i].input.cache)) =>
      inv[i].listed = 1

\* both instances have put under key k, and both puts have returned
BothStored(k) ==
  \A i \in TwoSlots :
    /\ Key(i) = k
    /\ inv[i].pc = "returned" /\ inv[i].puts = 1 /\ inv[i].enabled

\* C26: when two writers with one cache key, each through the put of its own
\* cache over the same directory, have both written and finished, the file
\* of the key holds exactly the serialised data of the put whose write
\* completed last (files[k].data), never a mixture of the two.
C26_LastWriterWins ==
  \A k \in DOMAIN files :
    BothStored(k) => files[k].bytes = StringifyText(files[k].data)

\* C27: cache.put writes one file, the one named by the digest of the key,
\* and no other file; a get of a cache constructed after the write returns,
\* for the same key, a sequence equal to the entry that was stored
\* (files[k].data, the array given to the put that wrote the file; the file
\* has been opened by that put only).
C27_PutThenGetReturnsEntry ==
  /\ [][\A i \in TwoSlots :
          inv'[i].fsOps > inv[i].fsOps /\ inv[i].pc \in {"putOpen", "putWrite"} =>
            /\ DOMAIN files' = DOMAIN files \cup {Key(i)}
            /\ \A k \in DOMAIN files : k # Key(i) => files'[k] = files[k]]_vars
  /\ [](\A i \in TwoSlots :
          (inv[i].hit /\ inv[i].pc = "returned" /\ files[Key(i)].once) =>
            inv[i].result = files[Key(i)].data)

\* C32: put leaves the index of its cache instance as it is.  No step after
\* the construction changes an instance's index; on an instance whose index
\* was built without key K, get(K) returns absent also after put(K) on that
\* instance, and the entry is found by an instance whose index was built
\* after the write.
C32_PutLeavesIndex ==
  /\ [][\A i \in TwoSlots :
          (Built(i) /\ inv'[i].pc # "idle") =>
            /\ inv'[i].index = inv[i].index
            /\ inv'[i].enabled = inv[i].enabled]_vars
  /\ [](\A i \in TwoSlots :
          GotEnded(i) =>
            /\ Key(i) \notin inv[i].index => (inv[i].pc = "returned" /\ ~inv[i].hit)
            /\ (inv[i].enabled /\ Key(i) \in inv[i].index) =>
                 (inv[i].hit \/ inv[i].pc = "rejected"))

\* one instance was built without the key, and get on it returns absent
\* although the file is there by now; the other, built after the write, has
\* got the entry
C32_Witness ==
  \E i, j \in TwoSlots :
    /\ inv[i].enabled /\ Key(i) \notin inv[i].index /\ Key(i) \in DOMAIN files
    /\ GotEnded(i) /\ inv[i].pc = "returned" /\ inv[i].fsOps = 0 /\ ~inv[i].hit
    /\ inv[j].enabled /\ Key(j) = Key(i) /\ Key(j) \in inv[j].index
    /\ GotEnded(j) /\ inv[j].hit /\ inv[j].result = files[Key(j)].data

====
